---- MODULE Spec2Model ----
(***************************************************************************)
(* Model of the PDF metadata viewer (components/PDFMetadataViewer.tsx and   *)
(* its PasswordDialog).  The state is the React state of the two           *)
(* components plus the extraction attempts (calls of extractMetadata) that *)
(* are suspended at an await.  One action is one run of handler code       *)
(* between two suspension points.                                          *)
(***************************************************************************)
EXTENDS Integers, Sequences, FiniteSets, TLC

\* ------------------------------------------------------------------------
\* Bounds of the model
\* ------------------------------------------------------------------------

\* most extraction attempts suspended at an await at the same time
MaxTasks == 2

\* most rejected password submissions counted before the model stops
\* accepting further submissions
MaxAttempts == 2

\* most extraction attempts suspended at the same time in the specification
\* with fairness (FairSpec)
MaxLiveTasks == 1

\* longest run of digits in the buffers given to the header detection
MaxDigits == 2

\* largest mantissa m of the byte counts m * 1024^e given to formatFileSize,
\* next to the ones around the unit boundaries
MaxMantissa == 2100

\* largest exponent e of those byte counts
MaxExponent == 2

\* ------------------------------------------------------------------------
\* Values
\* ------------------------------------------------------------------------

\* JavaScript null / undefined (an absent file, message, password or result)
Null == "null"

\* `!x` of a string-or-absent value is false
Truthy(s) == s # Null /\ s # ""

\* useState<PDFMetadata | null>(null): no result
NoMetadata == [isNull |-> TRUE]

\* ------------------------------------------------------------------------
\* The files a user can supply, and what the platform and the PDF library
\* answer for each of them
\* ------------------------------------------------------------------------

\* e.dataTransfer.files[0] / e.target.files[0]
FileIds == {"plain.pdf", "locked.pdf", "hidden.pdf",
            "broken.pdf", "blank.pdf", "gone.pdf"}

\* the same, with a text file and a PDF document that follows the headers
\* of a mail message
AllFiles == FileIds \cup {"notes.txt", "mail.pdf"}

\* file.arrayBuffer() rejects (the file can no longer be read)
ReadFails(f) == f = "gone.pdf"

\* message of the rejection of file.arrayBuffer()
ReadMessage(f) == "The requested file could not be read"

\* new TextDecoder().decode(uint8Array), as the sequence of the PDF tokens
\* the code searches for
textContent(f) ==
    CASE f = "plain.pdf"  -> <<"%PDF-1.7", "/Info">>
      [] f = "locked.pdf" -> <<"%PDF-1.6", "/Encrypt", "/MarkInfo", "/Info">>
      [] f = "hidden.pdf" -> <<"%PDF-1.5", "/ObjStm">>
      [] f = "broken.pdf" -> <<"%PDF-1.7", "/Encrypt">>
      [] f = "blank.pdf"  -> <<"%PDF-1.3">>
      [] f = "mail.pdf"   -> <<"From:", "%PDF-1.4", "/Info">>
      [] f = "notes.txt"  -> <<"Meeting", "notes">>
      [] OTHER            -> <<>>

\* String.prototype.includes, on the token sequence
includes(text, token) == \E i \in 1..Len(text) : text[i] = token

\* the password the library needs to open the document (Null: none)
UserPassword(f) ==
    CASE f = "locked.pdf" -> "open"
      [] f = "hidden.pdf" -> "open"
      [] OTHER            -> Null

\* the library cannot parse the document at all: the message of its error
\* (Null: the document parses)
ParseError(f) ==
    CASE f = "broken.pdf" -> "Invalid PDF structure"
      [] f = "notes.txt"  -> "Invalid PDF structure"
      [] OTHER            -> Null

\* pdfDoc.getMetadata() rejects: the message of its error, here an empty
\* one (Null: the metadata is returned)
MetadataError(f) ==
    CASE f = "blank.pdf"  -> ""
      [] OTHER            -> Null

\* pdfDoc.numPages
numPages(f) ==
    CASE f = "plain.pdf"  -> 3
      [] f = "locked.pdf" -> 2
      [] f = "hidden.pdf" -> 1
      [] OTHER            -> 4

\* pdfDoc.getMetadata().info: the entries of the document's information
\* dictionary that are strings (Null: no such entry)
info(f) ==
    CASE f = "plain.pdf"  -> [Title |-> "Annual report",
                              CreationDate |-> "D:20230115103000-05'00'"]
      [] f = "locked.pdf" -> [Title |-> Null,
                              CreationDate |-> "D:20240229120000"]
      [] f = "hidden.pdf" -> [Title |-> "Draft", CreationDate |-> "2021-03-04"]
      [] OTHER            -> [Title |-> Null, CreationDate |-> Null]

\* file.size in bytes, written m * 1024^e
size(f) ==
    CASE f = "plain.pdf"  -> [m |-> 1536, e |-> 0]
      [] f = "locked.pdf" -> [m |-> 1, e |-> 2]
      [] f = "hidden.pdf" -> [m |-> 1152, e |-> 1]
      [] f = "notes.txt"  -> [m |-> 14, e |-> 0]
      [] OTHER            -> [m |-> 2047, e |-> 0]

\* file.type
type(f) ==
    CASE f = "notes.txt" -> "text/plain"
      [] f = "mail.pdf"  -> ""
      [] OTHER           -> "application/pdf"

\* new Date(file.lastModified).toLocaleString()
lastModified(f) ==
    CASE f = "plain.pdf"  -> "1/16/2023, 9:00:00 AM"
      [] f = "locked.pdf" -> "3/1/2024, 8:15:30 AM"
      [] OTHER            -> "6/30/2022, 11:59:59 PM"

\* the characters of a header "%PDF-<d1>.<d2>"
PdfHeader(d1, d2) == <<"%", "P", "D", "F", "-", d1, ".", d2>>

\* new TextDecoder().decode(uint8Array.slice(0, 8)), character by character
header(f) ==
    CASE f = "plain.pdf"  -> PdfHeader("1", "7")
      [] f = "locked.pdf" -> PdfHeader("1", "6")
      [] f = "hidden.pdf" -> PdfHeader("1", "5")
      [] f = "broken.pdf" -> PdfHeader("1", "7")
      [] f = "blank.pdf"  -> PdfHeader("1", "3")
      [] f = "mail.pdf"   -> <<"F", "r", "o", "m", ":", " ", "a", "@">>
      [] f = "notes.txt"  -> <<"M", "e", "e", "t", "i", "n", "g", " ">>
      [] OTHER            -> <<>>

\* pdfjsLib.getDocument({data, password}).promise: the document, or the
\* error it rejects with
getDocument(f, password) ==
    IF ParseError(f) # Null
    THEN [ok |-> FALSE, name |-> "InvalidPDFException", message |-> ParseError(f)]
    ELSE IF UserPassword(f) # Null /\ password # UserPassword(f)
    THEN [ok |-> FALSE, name |-> "PasswordException",
          message |-> IF Truthy(password) THEN "Incorrect Password"
                                          ELSE "No password given"]
    ELSE [ok |-> TRUE, name |-> Null, message |-> Null]

\* pdfDoc.getMetadata(): the metadata, or the error it rejects with
getMetadata(f) ==
    IF MetadataError(f) # Null
    THEN [ok |-> FALSE, name |-> "UnknownErrorException", message |-> MetadataError(f)]
    ELSE [ok |-> TRUE, name |-> Null, message |-> Null]

\* the passwords a user types into the prompt
Passwords == {"open", "guess"}

\* ------------------------------------------------------------------------
\* formatFileSize, formatPDFDate and the header detection
\* ------------------------------------------------------------------------

\* A byte count is written [m |-> m, e |-> e] for m * 1024^e, so that the
\* counts of the GB range have a representation; bytes / 1024^i is then a
\* power-of-two scaling of m, which is exact in a double.

\* Math.pow(k, n), k = 1024
RECURSIVE Pow1024(_)
Pow1024(n) == IF n = 0 THEN 1 ELSE 1024 * Pow1024(n - 1)

\* Math.floor(Math.log(m) / Math.log(k)) for an integer m >= 1
RECURSIVE FloorLog1024(_)
FloorLog1024(m) == IF m < 1024 THEN 0 ELSE 1 + FloorLog1024(m \div 1024)

\* const sizes = ["Bytes", "KB", "MB", "GB"]
sizes == <<"Bytes", "KB", "MB", "GB">>

\* (num / den).toFixed(2), as the number of hundredths: the nearest one,
\* the larger of the two when num / den is half-way
toFixed(num, den) == (200 * num + den) \div (2 * den)

\* `${parseFloat(s)}` of a string s with two decimals, given as hundredths:
\* the decimals without their trailing zeros
parseFloat(n) ==
    ToString(n \div 100) \o
        (IF n % 100 = 0 THEN ""
         ELSE IF n % 10 = 0 THEN "." \o ToString((n % 100) \div 10)
         ELSE IF n % 100 < 10 THEN ".0" \o ToString(n % 100)
         ELSE "." \o ToString(n % 100))

\* formatFileSize with the scaled value cut off after two decimals instead
\* of rounded to them
formatFileSize_Truncates(bytes) ==
    IF bytes.m = 0 THEN "0 Bytes"
    ELSE LET j == FloorLog1024(bytes.m)
             i == bytes.e + j
         IN  parseFloat((100 * bytes.m) \div Pow1024(j)) \o " " \o
                (IF i + 1 <= Len(sizes) THEN sizes[i + 1] ELSE "undefined")

\* formatFileSize(bytes)
formatFileSize(bytes) ==
    IF bytes.m = 0 THEN "0 Bytes"
    ELSE LET j == FloorLog1024(bytes.m)
             i == bytes.e + j
         IN  parseFloat(toFixed(bytes.m, Pow1024(j))) \o " " \o
                (IF i + 1 <= Len(sizes) THEN sizes[i + 1] ELSE "undefined")

\* formatPDFDate(dateStr): a string that matches D:YYYYMMDDHHmmSS with an
\* optional offset is rendered by Date.toLocaleString (here en-US, UTC), any
\* other string is returned as it is
formatPDFDate(dateStr) ==
    CASE dateStr = "D:20230115103000-05'00'" -> "1/15/2023, 3:30:00 PM"
      [] dateStr = "D:20240229120000"        -> "2/29/2024, 12:00:00 PM"
      [] OTHER                               -> dateStr

\* the characters \d matches
Digits == {"0", "1", "2", "3", "4", "5", "6", "7", "8", "9"}

\* the pattern pat occurs in h at position p
OccursAt(h, pat, p) ==
    /\ p + Len(pat) - 1 <= Len(h)
    /\ SubSeq(h, p, p + Len(pat) - 1) = pat

\* the length of the longest run of digits of h that starts at position p
RECURSIVE DigitRun(_, _)
DigitRun(h, p) ==
    IF p <= Len(h) /\ h[p] \in Digits THEN 1 + DigitRun(h, p + 1) ELSE 0

\* the characters of h as one string
RECURSIVE Join(_)
Join(h) == IF h = <<>> THEN "" ELSE Head(h) \o Join(Tail(h))

\* uint8Array.slice(0, 8), decoded
slice8(buffer) == SubSeq(buffer, 1, IF Len(buffer) < 8 THEN Len(buffer) ELSE 8)

\* header.includes("%PDF") as a test of the start of the header only
isPDF_StartsWith(h) == OccursAt(h, <<"%", "P", "D", "F">>, 1)

\* header.includes("%PDF")
isPDF(h) == \E p \in 1..Len(h) : OccursAt(h, <<"%", "P", "D", "F">>, p)

\* /%PDF-(\d+\.\d+)/ matches h at position p: the greedy \d+ takes a whole
\* run of digits, which a "." and a second run must follow
MatchesAt(h, p) ==
    /\ OccursAt(h, <<"%", "P", "D", "F", "-">>, p)
    /\ LET n1 == DigitRun(h, p + 5) IN
       /\ n1 >= 1
       /\ p + 5 + n1 <= Len(h)
       /\ h[p + 5 + n1] = "."
       /\ DigitRun(h, p + 6 + n1) >= 1

\* isPDF ? header.match(/%PDF-(\d+\.\d+)/)?.[1] : null
pdfVersion(h) ==
    IF isPDF(h) /\ \E p \in 1..Len(h) : MatchesAt(h, p)
    THEN LET p  == CHOOSE q \in 1..Len(h) :
                       MatchesAt(h, q) /\ \A r \in 1..(q - 1) : ~MatchesAt(h, r)
             n1 == DigitRun(h, p + 5)
             n2 == DigitRun(h, p + 6 + n1)
         IN  Join(SubSeq(h, p + 5, p + 5 + n1 + n2))
    ELSE Null

\* no pure function is being examined
NoCall == [fn |-> "none"]

\* ------------------------------------------------------------------------
\* State
\* ------------------------------------------------------------------------

VARIABLES
    metadata,            \* useState<PDFMetadata | null>
    isLoading,           \* useState<boolean>
    error,               \* useState<string | null>
    currentFile,         \* useState<File | null>
    showPasswordDialog,  \* useState(false)
    passwordError,       \* useState<string>()
    attempts,            \* useState(0)
    password,            \* PasswordDialog: useState("")
    isSubmitting,        \* PasswordDialog: useState(false)
    tasks,               \* the suspended calls of extractMetadata, in the
                         \* order they were started
    call                 \* the call of a pure function under examination:
                         \* its argument and, once it has returned, its
                         \* result (NoCall in the viewer)

vars == <<metadata, isLoading, error, currentFile, showPasswordDialog,
          passwordError, attempts, password, isSubmitting, tasks, call>>

viewer == <<metadata, isLoading, error, currentFile, showPasswordDialog,
            passwordError, attempts>>

\* the state of the two components after they have been mounted
Mounted ==
    /\ metadata = NoMetadata
    /\ isLoading = FALSE
    /\ error = Null
    /\ currentFile = Null
    /\ showPasswordDialog = FALSE
    /\ passwordError = Null
    /\ attempts = 0
    /\ password = ""
    /\ isSubmitting = FALSE
    /\ tasks = <<>>

Init ==
    /\ Mounted
    /\ call = NoCall

\* ------------------------------------------------------------------------
\* extractMetadata(file, password?)
\* ------------------------------------------------------------------------

\* the attempt at position i has returned: it leaves the suspended calls
Remove(i) == SubSeq(tasks, 1, i - 1) \o SubSeq(tasks, i + 1, Len(tasks))

\* PasswordDialog.handleSubmit after `await onSubmit(password)`: the
\* attempts that carry a password are the ones the prompt started, and the
\* continuation runs as soon as extractMetadata has returned
AfterSubmit(t) ==
    IF t.password # Null
    THEN password' = "" /\ isSubmitting' = FALSE
    ELSE UNCHANGED <<password, isSubmitting>>

\* the synchronous start of extractMetadata, up to `await file.arrayBuffer()`
StartExtract(file, pw) ==
    /\ Len(tasks) < MaxTasks
    /\ isLoading' = TRUE
    /\ error' = Null
    /\ tasks' = Append(tasks, [file |-> file, password |-> pw, pc |-> "read"])

\* `if (encryptedMatch && !password)`
NeedsPrompt(file, pw) == includes(textContent(file), "/Encrypt") /\ ~Truthy(pw)

\* setCurrentFile(file); setShowPasswordDialog(true)
ShowPrompt(file) ==
    /\ currentFile' = file
    /\ showPasswordDialog' = TRUE
    /\ UNCHANGED <<metadata, error, passwordError, attempts>>

\* the outer catch without the `if (password)` branch: every message goes
\* to the error panel
OuterCatch_AlwaysPanel(pw, message) ==
    /\ error' = "Error processing file: " \o message
    /\ UNCHANGED <<metadata, currentFile, showPasswordDialog, passwordError>>

\* the outer `catch (err)`: the message goes to the prompt when a password
\* was supplied and to the error panel otherwise
OuterCatch(pw, message) ==
    /\ IF Truthy(pw)
       THEN passwordError' = message /\ UNCHANGED error
       ELSE error' = "Error processing file: " \o message /\ UNCHANGED passwordError
    /\ UNCHANGED <<metadata, currentFile, showPasswordDialog>>

\* the message of the Error thrown for a library failure that is not a
\* PasswordException
ProcessingMessage(message) ==
    "Error processing PDF: " \o (IF Truthy(message) THEN message ELSE "Unknown error")

\* the inner `catch (error)` around the library calls
InnerCatch(file, pw, err) ==
    IF err.name = "PasswordException"
    THEN IF Truthy(pw)
         THEN /\ attempts' = attempts + 1
              /\ OuterCatch(pw, "Invalid password. Please try again.")
         ELSE ShowPrompt(file)
    ELSE /\ OuterCatch(pw, ProcessingMessage(err.message))
         /\ UNCHANGED attempts

\* the InfoDictionary of a parsed document whose "Security Status" is
\* decided by `encrypted` (an entry that is Null is not in the dictionary)
infoDictWith(file, encrypted) ==
    [LastModified |-> lastModified(file)
        \o " (last time the file was saved or moved on your computer)",
     Title |-> info(file).Title,
     CreationDate |->
        IF info(file).CreationDate = Null THEN Null
        ELSE formatPDFDate(info(file).CreationDate)
                \o " (when the PDF was first created)",
     PageCount |-> ToString(numPages(file)) \o " pages",
     SecurityStatus |->
        IF encrypted
        THEN "Encrypted (this PDF has security restrictions)"
        ELSE "Not Encrypted (this PDF has no security restrictions)",
     Accessibility |->
        IF includes(textContent(file), "/MarkInfo")
        THEN "Tagged PDF (accessible for screen readers)"
        ELSE "Not Tagged (limited accessibility support)"]

\* infoDict with "Security Status" taken from whether the library needed a
\* password instead of from the bytes
infoDict_FromPassword(file) == infoDictWith(file, UserPassword(file) # Null)

\* the InfoDictionary of a parsed document
infoDict(file) == infoDictWith(file, includes(textContent(file), "/Encrypt"))

\* fullMetadata, for each file
fullMetadataOf ==
    [file \in AllFiles |->
        [isNull |-> FALSE,
         fileName |-> file,
         fileSize |-> formatFileSize(size(file)),
         fileType |-> type(file),
         isPDF |-> isPDF(header(file)),
         pdfVersion |-> pdfVersion(header(file)),
         infoDict |-> infoDict(file)]]

\* fullMetadata with a "Security Status" that also reads "Encrypted" when a
\* prompt is up at the time the result is assembled
fullMetadata_Stateful(file) ==
    [isNull |-> FALSE,
     fileName |-> file,
     fileSize |-> formatFileSize(size(file)),
     fileType |-> type(file),
     isPDF |-> isPDF(header(file)),
     pdfVersion |-> pdfVersion(header(file)),
     infoDict |-> infoDictWith(file, includes(textContent(file), "/Encrypt")
                                        \/ showPasswordDialog)]

\* fullMetadata
fullMetadata(file) == fullMetadataOf[file]

\* Success without `setCurrentFile(null)`
Success_KeepsFile(file) ==
    /\ metadata' = fullMetadata(file)
    /\ showPasswordDialog' = FALSE
    /\ passwordError' = Null
    /\ attempts' = 0
    /\ UNCHANGED <<error, currentFile>>

\* the end of the inner try block: the result is shown, the retry state reset
Success(file) ==
    /\ metadata' = fullMetadata(file)
    /\ showPasswordDialog' = FALSE
    /\ currentFile' = Null
    /\ passwordError' = Null
    /\ attempts' = 0
    /\ UNCHANGED error

\* ReadDone without the `finally`: a failed read leaves the loading flag on
ReadDone_NoFinally(i) ==
    /\ i \in 1..Len(tasks)
    /\ tasks[i].pc = "read"
    /\ LET t == tasks[i] IN
       IF ReadFails(t.file)
       THEN /\ OuterCatch(t.password, ReadMessage(t.file))
            /\ UNCHANGED <<attempts, isLoading>>
            /\ tasks' = Remove(i)
            /\ AfterSubmit(t)
       ELSE IF NeedsPrompt(t.file, t.password)
       THEN /\ ShowPrompt(t.file)
            /\ isLoading' = FALSE
            /\ tasks' = Remove(i)
            /\ AfterSubmit(t)
       ELSE /\ tasks' = [tasks EXCEPT ![i].pc = "load"]
            /\ UNCHANGED <<viewer, password, isSubmitting>>
    /\ UNCHANGED call

\* ReadDone with a check of the header: a file whose first 8 bytes do not
\* contain "%PDF" is turned down before the library sees it
ReadDone_RejectsNonPDF(i) ==
    /\ i \in 1..Len(tasks)
    /\ tasks[i].pc = "read"
    /\ LET t == tasks[i] IN
       IF ReadFails(t.file) \/ ~isPDF(header(t.file))
       THEN /\ OuterCatch(t.password,
                          IF ReadFails(t.file) THEN ReadMessage(t.file)
                                               ELSE "Not a PDF file")
            /\ UNCHANGED attempts
            /\ isLoading' = FALSE
            /\ tasks' = Remove(i)
            /\ AfterSubmit(t)
       ELSE IF NeedsPrompt(t.file, t.password)
       THEN /\ ShowPrompt(t.file)
            /\ isLoading' = FALSE
            /\ tasks' = Remove(i)
            /\ AfterSubmit(t)
       ELSE /\ tasks' = [tasks EXCEPT ![i].pc = "load"]
            /\ UNCHANGED <<viewer, password, isSubmitting>>
    /\ UNCHANGED call

\* file.arrayBuffer() has settled
ReadDone(i) ==
    /\ i \in 1..Len(tasks)
    /\ tasks[i].pc = "read"
    /\ LET t == tasks[i] IN
       IF ReadFails(t.file)
       THEN /\ OuterCatch(t.password, ReadMessage(t.file))
            /\ UNCHANGED attempts
            /\ isLoading' = FALSE
            /\ tasks' = Remove(i)
            /\ AfterSubmit(t)
       ELSE IF NeedsPrompt(t.file, t.password)
       THEN /\ ShowPrompt(t.file)
            /\ isLoading' = FALSE
            /\ tasks' = Remove(i)
            /\ AfterSubmit(t)
       ELSE /\ tasks' = [tasks EXCEPT ![i].pc = "load"]
            /\ UNCHANGED <<viewer, password, isSubmitting>>
    /\ UNCHANGED call

\* loadingTask.promise has settled
LoadDone(i) ==
    /\ i \in 1..Len(tasks)
    /\ tasks[i].pc = "load"
    /\ LET t == tasks[i]
           doc == getDocument(t.file, t.password) IN
       IF doc.ok
       THEN /\ tasks' = [tasks EXCEPT ![i].pc = "meta"]
            /\ UNCHANGED <<viewer, password, isSubmitting>>
       ELSE /\ InnerCatch(t.file, t.password, doc)
            /\ isLoading' = FALSE
            /\ tasks' = Remove(i)
            /\ AfterSubmit(t)
    /\ UNCHANGED call

\* pdfDoc.getMetadata() has settled
MetaDone(i) ==
    /\ i \in 1..Len(tasks)
    /\ tasks[i].pc = "meta"
    /\ LET t == tasks[i]
           meta == getMetadata(t.file) IN
       /\ IF meta.ok
          THEN Success(t.file)
          ELSE InnerCatch(t.file, t.password, meta)
       /\ isLoading' = FALSE
       /\ tasks' = Remove(i)
       /\ AfterSubmit(t)
    /\ UNCHANGED call

\* ------------------------------------------------------------------------
\* Event handlers
\* ------------------------------------------------------------------------

\* Neither file handler looks at isLoading or at the prompt: a file can be
\* supplied while an earlier attempt is suspended, and a file chosen in a
\* picker that was opened before the prompt appeared arrives while the
\* prompt is visible.

\* onDrop of the drop zone
handleDrop(file) ==
    /\ StartExtract(file, Null)
    /\ UNCHANGED <<metadata, currentFile, showPasswordDialog, passwordError,
                   attempts, password, isSubmitting>>
    /\ UNCHANGED call

\* onChange of the file input
handleFileChange(file) ==
    /\ StartExtract(file, Null)
    /\ UNCHANGED <<metadata, currentFile, showPasswordDialog, passwordError,
                   attempts, password, isSubmitting>>
    /\ UNCHANGED call

\* onChange of the password input of the visible prompt
setPassword(p) ==
    /\ showPasswordDialog
    /\ password # p
    /\ password' = p
    /\ UNCHANGED <<viewer, isSubmitting, tasks>>
    /\ UNCHANGED call

\* handleSubmit with a Submit button that is not disabled while a submission
\* is in flight (`disabled={!password}`)
handleSubmit_IgnoresSubmitting ==
    /\ showPasswordDialog
    /\ Truthy(password)
    /\ attempts < MaxAttempts
    /\ currentFile # Null
    /\ StartExtract(currentFile, password)
    /\ isSubmitting' = TRUE
    /\ UNCHANGED <<metadata, currentFile, showPasswordDialog, passwordError,
                   attempts, password>>
    /\ UNCHANGED call

\* PasswordDialog.handleSubmit up to `await onSubmit(password)`, with
\* handlePasswordSubmit; the submit button is disabled for an empty password
\* and while a submission is in flight
handleSubmit ==
    /\ showPasswordDialog
    /\ Truthy(password)
    /\ ~isSubmitting
    /\ attempts < MaxAttempts
    /\ IF currentFile # Null
       THEN /\ StartExtract(currentFile, password)
            /\ isSubmitting' = TRUE
            /\ UNCHANGED password
       ELSE /\ password' = ""
            /\ isSubmitting' = FALSE
            /\ UNCHANGED <<isLoading, error, tasks>>
    /\ UNCHANGED <<metadata, currentFile, showPasswordDialog, passwordError,
                   attempts>>
    /\ UNCHANGED call

\* onClose without `setAttempts(0)`
onClose_KeepsAttempts ==
    /\ showPasswordDialog
    /\ ~isSubmitting
    /\ showPasswordDialog' = FALSE
    /\ currentFile' = Null
    /\ passwordError' = Null
    /\ UNCHANGED <<metadata, isLoading, error, attempts, password, isSubmitting, tasks>>
    /\ UNCHANGED call

\* onClose of the prompt (the Cancel button, disabled while submitting)
onClose ==
    /\ showPasswordDialog
    /\ ~isSubmitting
    /\ showPasswordDialog' = FALSE
    /\ currentFile' = Null
    /\ passwordError' = Null
    /\ attempts' = 0
    /\ UNCHANGED <<metadata, isLoading, error, password, isSubmitting, tasks>>
    /\ UNCHANGED call

Next ==
    \/ \E f \in FileIds : handleDrop(f)
    \/ \E f \in FileIds : handleFileChange(f)
    \/ \E p \in Passwords : setPassword(p)
    \/ handleSubmit
    \/ onClose
    \/ \E i \in 1..MaxTasks : ReadDone(i)
    \/ \E i \in 1..MaxTasks : LoadDone(i)
    \/ \E i \in 1..MaxTasks : MetaDone(i)

Spec == Init /\ [][Next]_vars

\* the await of the oldest suspended attempt settles
HeadSettles == ReadDone(1) \/ LoadDone(1) \/ MetaDone(1)

\* Next, with the user starting an attempt only while fewer than
\* MaxLiveTasks are suspended
LiveNext ==
    \/ Len(tasks) < MaxLiveTasks /\ \E f \in FileIds : handleDrop(f)
    \/ Len(tasks) < MaxLiveTasks /\ \E f \in FileIds : handleFileChange(f)
    \/ \E p \in Passwords : setPassword(p)
    \/ Len(tasks) < MaxLiveTasks /\ handleSubmit
    \/ onClose
    \/ \E i \in 1..MaxTasks : ReadDone(i)
    \/ \E i \in 1..MaxTasks : LoadDone(i)
    \/ \E i \in 1..MaxTasks : MetaDone(i)

\* the viewer with the file read and the library calls of the oldest
\* suspended attempt eventually settling
FairSpec == Init /\ [][LiveNext]_vars /\ WF_vars(HeadSettles)

\* LiveNext, with the text file and the document behind mail headers among
\* the files the user supplies
AnyFileNext ==
    \/ Len(tasks) < MaxLiveTasks /\ \E f \in AllFiles : handleDrop(f)
    \/ Len(tasks) < MaxLiveTasks /\ \E f \in AllFiles : handleFileChange(f)
    \/ \E p \in Passwords : setPassword(p)
    \/ Len(tasks) < MaxLiveTasks /\ handleSubmit
    \/ onClose
    \/ \E i \in 1..MaxTasks : ReadDone(i)
    \/ \E i \in 1..MaxTasks : LoadDone(i)
    \/ \E i \in 1..MaxTasks : MetaDone(i)

\* the viewer given any of the files
AnyFileSpec == Init /\ [][AnyFileNext]_vars

\* ------------------------------------------------------------------------
\* The header detection on its own
\* ------------------------------------------------------------------------

\* the runs of at most n of the digits 1 and 7
RECURSIVE DigitRuns(_)
DigitRuns(n) ==
    IF n = 0 THEN {<<>>}
    ELSE DigitRuns(n - 1) \cup
            {Append(r, d) : r \in {q \in DigitRuns(n - 1) : Len(q) = n - 1},
                            d \in {"1", "7"}}

\* the starts of the files given to the detection: an optional leading
\* character, the magic number whole or cut short, and a version with or
\* without its dash, its dot and its digits, optionally followed by more
Buffers ==
    {pre \o magic \o dash \o major \o dot \o minor \o post :
        pre \in {<<>>, <<" ">>},
        magic \in {<<"%", "P", "D", "F">>, <<"%", "P", "D">>, <<"P", "D", "F">>},
        dash \in {<<"-">>, <<>>},
        major \in DigitRuns(MaxDigits),
        dot \in {<<".">>, <<>>},
        minor \in DigitRuns(MaxDigits),
        post \in {<<>>, <<" ">>}}

HeaderInit ==
    /\ Mounted
    /\ \E buffer \in Buffers :
          call = [fn |-> "detectPDFHeader", arg |-> buffer, done |-> FALSE]

\* lines 101-103 of extractMetadata, applied to the bytes of the call
detectPDFHeader ==
    /\ call.fn = "detectPDFHeader"
    /\ ~call.done
    /\ call' = [fn |-> call.fn, arg |-> call.arg, done |-> TRUE,
                ret |-> [isPDF |-> isPDF(slice8(call.arg)),
                         pdfVersion |-> pdfVersion(slice8(call.arg))]]
    /\ UNCHANGED <<viewer, password, isSubmitting, tasks>>

HeaderNext == detectPDFHeader

HeaderSpec == HeaderInit /\ [][HeaderNext]_vars

\* ------------------------------------------------------------------------
\* formatFileSize on its own
\* ------------------------------------------------------------------------

\* the byte counts given to formatFileSize: m * 1024^e for every small m and
\* for the m next to 1024^2 and 2 * 1024^2
ByteCounts ==
    {[m |-> m, e |-> e] :
        m \in (0..MaxMantissa) \cup {1048575, 1048576, 1048577, 2097151},
        e \in 0..MaxExponent}

FormatInit ==
    /\ Mounted
    /\ \E bytes \in ByteCounts :
          call = [fn |-> "formatFileSize", arg |-> bytes, done |-> FALSE]

\* the call of formatFileSize returns
formatFileSizeReturns ==
    /\ call.fn = "formatFileSize"
    /\ ~call.done
    /\ call' = [fn |-> call.fn, arg |-> call.arg, done |-> TRUE,
                ret |-> formatFileSize(call.arg)]
    /\ UNCHANGED <<viewer, password, isSubmitting, tasks>>

FormatNext == formatFileSizeReturns

FormatSpec == FormatInit /\ [][FormatNext]_vars

TypeOK ==
    /\ isLoading \in BOOLEAN
    /\ showPasswordDialog \in BOOLEAN
    /\ isSubmitting \in BOOLEAN
    /\ currentFile \in AllFiles \cup {Null}
    /\ attempts \in 0..MaxAttempts
    /\ password \in Passwords \cup {""}
    /\ Len(tasks) <= MaxTasks

\* ------------------------------------------------------------------------
\* Vocabulary of the properties
\* ------------------------------------------------------------------------

\* the attempt at position i ends in this step: it has left the suspended
\* calls, and the others are as they were
Ends(i) ==
    /\ i \in 1..Len(tasks)
    /\ tasks' = Remove(i)

\* how the attempt t ends when the await it is suspended at settles, from
\* the answers of the platform and of the library alone ("Running": it goes
\* on to its next await)
Kind(t) ==
    CASE t.pc = "read" ->
            IF ReadFails(t.file) THEN "ReadFailure"
            ELSE IF includes(textContent(t.file), "/Encrypt") /\ t.password = Null
            THEN "EncryptedNeedsPassword"
            ELSE "Running"
      [] t.pc = "load" ->
            IF ParseError(t.file) # Null THEN "ParseFailure"
            ELSE IF UserPassword(t.file) = Null \/ t.password = UserPassword(t.file)
            THEN "Running"
            ELSE IF t.password = Null THEN "EncryptedNeedsPassword"
            ELSE "InvalidPassword"
      [] OTHER ->
            IF MetadataError(t.file) # Null THEN "ParseFailure" ELSE "Done"

\* the message of the library error behind a ParseFailure of attempt t
LibraryMessage(t) ==
    IF t.pc = "load" THEN ParseError(t.file) ELSE MetadataError(t.file)

InvalidPasswordMessage == "Invalid password. Please try again."

\* ------------------------------------------------------------------------
\* C1
\* ------------------------------------------------------------------------

\* C1: in every reachable state the pending file (currentFile) is set if and
\* only if the password prompt is visible (showPasswordDialog).
C1_PendingFileIffPromptVisible ==
    (currentFile # Null) <=> showPasswordDialog

\* a prompt is up for a pending file while another attempt is still in flight
C1_Witness ==
    /\ showPasswordDialog
    /\ currentFile = "hidden.pdf"
    /\ Len(tasks) > 0

\* ------------------------------------------------------------------------
\* C2
\* ------------------------------------------------------------------------

\* C2: a result (metadata) is present only in the Done state: it is absent
\* while a password is outstanding (currentFile set), while an extraction
\* is running (it is cleared when one begins) and while the top-level error
\* of a failed extraction is shown.
C2_ResultOnlyWhenDone ==
    metadata # NoMetadata =>
        /\ currentFile = Null
        /\ tasks = <<>>
        /\ error = Null

\* ------------------------------------------------------------------------
\* C3
\* ------------------------------------------------------------------------

\* C3: when an attempt without a password ends because the file needs one
\* (its bytes contain '/Encrypt', or the library fails with a password
\* error), it ends in AwaitingPassword: the file is pending, the prompt is
\* visible, loading is off, and both the top-level error and the prompt's
\* error are absent.
C3_FirstPromptCarriesNoError ==
    [][\A i \in 1..MaxTasks :
          (Ends(i) /\ Kind(tasks[i]) = "EncryptedNeedsPassword") =>
              /\ currentFile' = tasks[i].file
              /\ showPasswordDialog'
              /\ ~isLoading'
              /\ error' = Null
              /\ passwordError' = Null]_vars

\* ------------------------------------------------------------------------
\* C4
\* ------------------------------------------------------------------------

\* C4: a password submitted for the pending file and rejected by the
\* library as wrong sets the prompt's error to "Invalid password. Please
\* try again.", raises the attempt counter by exactly 1, keeps the
\* submitted file pending and the prompt visible, and changes neither the
\* top-level error nor the shown result, from the submission to the
\* rejection.
C4_WrongPasswordReprompts ==
    [][/\ handleSubmit => (error' = error /\ metadata' = metadata)
       /\ \A i \in 1..MaxTasks :
            (Ends(i) /\ Kind(tasks[i]) = "InvalidPassword") =>
                /\ passwordError' = InvalidPasswordMessage
                /\ attempts' = attempts + 1
                /\ currentFile' = tasks[i].file
                /\ showPasswordDialog'
                /\ error' = error
                /\ metadata' = metadata]_vars

\* ------------------------------------------------------------------------
\* C5
\* ------------------------------------------------------------------------

\* C5: when a password submission is accepted, the attempt ends in Done:
\* no pending file, prompt hidden, prompt error absent, attempts 0, loading
\* off, top-level error absent, and a result for that file whose "Page
\* Count" is the page count the library reported.
C5_AcceptedPasswordEndsDone ==
    [][\A i \in 1..MaxTasks :
          (Ends(i) /\ Kind(tasks[i]) = "Done" /\ tasks[i].password # Null) =>
              /\ currentFile' = Null
              /\ ~showPasswordDialog'
              /\ passwordError' = Null
              /\ attempts' = 0
              /\ ~isLoading'
              /\ error' = Null
              /\ metadata' # NoMetadata
              /\ metadata'.fileName = tasks[i].file
              /\ metadata'.infoDict.PageCount
                    = ToString(numPages(tasks[i].file)) \o " pages"]_vars

\* ------------------------------------------------------------------------
\* C6
\* ------------------------------------------------------------------------

\* C6: cancelling the prompt resets pendingFile, promptVisible, the prompt
\* error and the attempt counter in one step, starts no extraction, and
\* leaves the shown result, the top-level error and the loading flag
\* unchanged.
C6_CancelResetsRetryState ==
    [][onClose =>
          /\ currentFile' = Null
          /\ ~showPasswordDialog'
          /\ passwordError' = Null
          /\ attempts' = 0
          /\ tasks' = tasks
          /\ metadata' = metadata
          /\ error' = error
          /\ isLoading' = isLoading]_vars

\* the prompt was cancelled after a password was typed: it is hidden with
\* the text still in its field and the retry state empty, and nothing but a
\* cancel hides a prompt without showing a result
C6_Witness ==
    /\ ~showPasswordDialog
    /\ currentFile = Null
    /\ passwordError = Null
    /\ attempts = 0
    /\ password # ""
    /\ metadata = NoMetadata
    /\ tasks = <<>>

\* ------------------------------------------------------------------------
\* C7
\* ------------------------------------------------------------------------

\* C7: with or without a supplied password, a library failure that is not
\* a password error is terminal: the top-level error is set, and the
\* failure is not reported as a prompt error.
C7_ParseFailureIsTerminal ==
    [][\A i \in 1..MaxTasks :
          (Ends(i) /\ Kind(tasks[i]) = "ParseFailure") =>
              /\ error' # Null
              /\ passwordError' = passwordError]_vars

\* ------------------------------------------------------------------------
\* C8
\* ------------------------------------------------------------------------

\* the message an ending attempt shows the user: in the prompt when it
\* carried a password, in the error panel otherwise
UserFacing(t, promptMessage, panelMessage) ==
    IF t.password # Null THEN promptMessage ELSE panelMessage

\* C8: a non-password library failure with message m is shown to the user
\* as exactly "Error processing PDF: " followed by m ("Unknown error" for an
\* empty m), with no other prefix.
C8_ParseFailureMessage ==
    [][\A i \in 1..MaxTasks :
          (Ends(i) /\ Kind(tasks[i]) = "ParseFailure") =>
              UserFacing(tasks[i], passwordError', error')
                = "Error processing PDF: "
                    \o (IF LibraryMessage(tasks[i]) = ""
                        THEN "Unknown error" ELSE LibraryMessage(tasks[i]))]_vars

\* ------------------------------------------------------------------------
\* C9
\* ------------------------------------------------------------------------

\* C9: an attempt that ends with 'password needed' or 'invalid password'
\* leaves the top-level error as it is, and a message appears in the
\* top-level error only in a step that ends an attempt in a parse failure
\* or a read failure.
C9_RecoverableErrorsStayInPrompt ==
    [][/\ \A i \in 1..MaxTasks :
            (Ends(i) /\ Kind(tasks[i]) \in {"EncryptedNeedsPassword", "InvalidPassword"})
                => error' = error
       /\ (error' # Null /\ error' # error) =>
            \E i \in 1..MaxTasks :
                Ends(i) /\ Kind(tasks[i]) \in {"ParseFailure", "ReadFailure"}]_vars

\* a wrong password was rejected and the top-level error is absent
C9_Witness ==
    /\ showPasswordDialog
    /\ passwordError = InvalidPasswordMessage
    /\ attempts > 0
    /\ error = Null

\* ------------------------------------------------------------------------
\* C10
\* ------------------------------------------------------------------------

\* C10: at most one extraction attempt is in flight at any time.
C10_OneAttemptInFlight ==
    Len(tasks) <= 1

\* ------------------------------------------------------------------------
\* C11
\* ------------------------------------------------------------------------

\* the positions of the suspended attempts that the prompt started
Submissions == {i \in 1..Len(tasks) : tasks[i].password # Null}

\* C11: the prompt never has two submissions in flight: the submitting flag
\* is set exactly while the extraction started by a submission is in
\* flight (so it is cleared when that extraction ends, whatever the
\* outcome), Submit and Cancel are disabled while it is set, and every
\* submitted password is non-empty.
C11_OneSubmissionInFlight ==
    /\ Cardinality(Submissions) <= 1
    /\ isSubmitting <=> (Submissions # {})
    /\ \A i \in Submissions : tasks[i].password # ""
    /\ isSubmitting => (~ENABLED handleSubmit /\ ~ENABLED onClose)

\* a submission is in flight while the prompt is visible with a typed
\* password and room for another attempt: only the flag disables Submit
C11_Witness ==
    /\ isSubmitting
    /\ showPasswordDialog
    /\ Truthy(password)
    /\ Len(tasks) < MaxTasks
    /\ attempts < MaxAttempts
    /\ Submissions # {}

\* ------------------------------------------------------------------------
\* C12
\* ------------------------------------------------------------------------

\* the attempt t ends in this step with the result of its file shown
ResultShown(t) ==
    /\ Kind(t) = "Done"
    /\ metadata' # NoMetadata
    /\ metadata'.fileName = t.file

\* the attempt t ends in this step with the prompt shown for its file
PromptShown(t) ==
    /\ Kind(t) = "EncryptedNeedsPassword"
    /\ showPasswordDialog'
    /\ currentFile' = t.file

\* the attempt t ends in this step with a message in the prompt
PromptErrorShown(t) ==
    /\ Kind(t) \in {"InvalidPassword", "ParseFailure", "ReadFailure"}
    /\ t.password # Null
    /\ passwordError' # Null

\* the attempt t ends in this step with a message in the error panel
TopLevelErrorShown(t) ==
    /\ Kind(t) \in {"ParseFailure", "ReadFailure"}
    /\ t.password = Null
    /\ error' # Null

\* the attempt at position i ends in exactly one of the four outcomes: it
\* makes the writes of one and of no other, and turns the loading flag off
OneOutcome(i) ==
    LET t == tasks[i] IN
    /\ ResultShown(t) \/ PromptShown(t) \/ PromptErrorShown(t) \/ TopLevelErrorShown(t)
    /\ ~ResultShown(t) => metadata' = metadata
    /\ ~TopLevelErrorShown(t) => error' = error
    /\ ~(PromptErrorShown(t) \/ ResultShown(t)) => passwordError' = passwordError
    /\ ~(PromptShown(t) \/ ResultShown(t)) =>
            UNCHANGED <<showPasswordDialog, currentFile>>
    /\ ~isLoading'

\* C12: no attempt hangs or crashes the state machine: with the awaits
\* settling, a loading flag that is on and a submission that is in flight
\* are eventually off; every attempt that ends does so in exactly one of the
\* outcomes {result shown, prompt shown, prompt error shown, top-level error
\* shown}; and the loading flag is off whenever no attempt is in flight.
C12_EveryAttemptCompletes ==
    /\ [][\A i \in 1..MaxTasks : Ends(i) => OneOutcome(i)]_vars
    /\ [](tasks = <<>> => ~isLoading)
    /\ isLoading ~> ~isLoading
    /\ isSubmitting ~> ~isSubmitting

\* an attempt that failed terminally has ended: its message is in the error
\* panel, nothing is in flight and the loading flag is off
C12_Witness ==
    /\ error # Null
    /\ tasks = <<>>
    /\ ~isLoading
    /\ ~isSubmitting

\* ------------------------------------------------------------------------
\* C13
\* ------------------------------------------------------------------------

\* C13: in every shown result "Security Status" reads "Encrypted..." if and
\* only if the bytes of its file contain '/Encrypt' (and "Not Encrypted..."
\* otherwise), whether or not a password was supplied or needed, and
\* "Accessibility" reads "Tagged PDF..." if and only if they contain
\* '/MarkInfo' (and "Not Tagged..." otherwise).
C13_StatusFromBytes ==
    metadata # NoMetadata =>
        LET text == textContent(metadata.fileName)
            dict == metadata.infoDict IN
        /\ dict.SecurityStatus =
              (IF \E i \in 1..Len(text) : text[i] = "/Encrypt"
               THEN "Encrypted (this PDF has security restrictions)"
               ELSE "Not Encrypted (this PDF has no security restrictions)")
        /\ dict.Accessibility =
              (IF \E i \in 1..Len(text) : text[i] = "/MarkInfo"
               THEN "Tagged PDF (accessible for screen readers)"
               ELSE "Not Tagged (limited accessibility support)")

\* the result of a file that needed a password although its bytes do not
\* contain '/Encrypt' is shown and reads "Not Encrypted", "Not Tagged"
C13_Witness ==
    /\ metadata # NoMetadata
    /\ metadata.fileName = "hidden.pdf"
    /\ metadata.infoDict.SecurityStatus
          = "Not Encrypted (this PDF has no security restrictions)"
    /\ metadata.infoDict.Accessibility
          = "Not Tagged (limited accessibility support)"

\* ------------------------------------------------------------------------
\* C14
\* ------------------------------------------------------------------------

\* the first 8 bytes of file f do not contain "%PDF"
NoPDFHeader(f) ==
    \A p \in 1..5 :
        Len(header(f)) >= p + 3 =>
            <<header(f)[p], header(f)[p + 1], header(f)[p + 2], header(f)[p + 3]>>
                # <<"%", "P", "D", "F">>

BeginsWithVersion(b) ==
    /\ Len(b) >= 8
    /\ <<b[1], b[2], b[3], b[4], b[5]>> = <<"%", "P", "D", "F", "-">>
    /\ b[6] \in Digits
    /\ b[7] = "."
    /\ b[8] \in Digits

\* the buffer b starts with '%PDF'
StartsWithMagic(b) ==
    /\ Len(b) >= 4
    /\ <<b[1], b[2], b[3], b[4]>> = <<"%", "P", "D", "F">>

\* '%PDF' is somewhere in the first 8 bytes of the buffer b
MagicInFirst8(b) ==
    \E p \in 1..5 :
        /\ Len(b) >= p + 3
        /\ <<b[p], b[p + 1], b[p + 2], b[p + 3]>> = <<"%", "P", "D", "F">>

\* C15 as stated: for every buffer that begins with '%PDF-<digits>.<digits>'
\* within its first 8 bytes the detection returns (true, the captured
\* version), and for every buffer that does not start with '%PDF' it
\* returns (false, absent).
C15_HeaderDetection ==
    (call.fn = "detectPDFHeader" /\ call.done) =>
        /\ BeginsWithVersion(call.arg) =>
              /\ call.ret.isPDF = TRUE
              /\ call.ret.pdfVersion = call.arg[6] \o "." \o call.arg[8]
        /\ ~StartsWithMagic(call.arg) =>
              /\ call.ret.isPDF = FALSE
              /\ call.ret.pdfVersion = Null

\* C15, amended: for every buffer that begins with '%PDF-<digits>.<digits>'
\* within its first 8 bytes the detection returns (true, the captured
\* version); isPDF is true exactly when the first 8 bytes contain '%PDF',
\* at their start or not; and for every buffer whose first 8 bytes do not
\* contain '%PDF' it returns (false, absent).
C15_HeaderDetectionByContainment ==
    (call.fn = "detectPDFHeader" /\ call.done) =>
        /\ BeginsWithVersion(call.arg) =>
              /\ call.ret.isPDF = TRUE
              /\ call.ret.pdfVersion = call.arg[6] \o "." \o call.arg[8]
        /\ call.ret.isPDF = MagicInFirst8(call.arg)
        /\ ~MagicInFirst8(call.arg) => call.ret.pdfVersion = Null

\* the detection has answered for a buffer that has '%PDF' after a leading
\* character: it is a PDF
C15_Witness ==
    /\ call.fn = "detectPDFHeader"
    /\ call.done
    /\ ~StartsWithMagic(call.arg)
    /\ MagicInFirst8(call.arg)
    /\ call.ret.isPDF = TRUE

\* ------------------------------------------------------------------------
\* C16
\* ------------------------------------------------------------------------

\* 1024, 1024^2 and 1024^3
PowersOf1024 == <<1024, 1048576, 1073741824>>

\* the byte count b = m * 1024^e is below 1024^k (every m of the model is
\* below 1024^3)
Below(b, k) ==
    IF k <= b.e THEN b.m = 0
    ELSE IF k - b.e >= 3 THEN TRUE
    ELSE b.m < PowersOf1024[k - b.e]

\* n hundredths is a nearest number of hundredths to b / 1024^i, for a byte
\* count b = m * 1024^e with i >= e: 2 * |n * 1024^(i-e) - 100 * m| is at
\* most 1024^(i-e)
Nearest(n, b, i) ==
    LET d    == IF i = b.e THEN 1 ELSE PowersOf1024[i - b.e]
        diff == n * d - 100 * b.m
    IN  2 * (IF diff < 0 THEN 0 - diff ELSE diff) <= d

\* n hundredths printed with at most 2 decimals and no trailing zero
Decimal(n) ==
    LET tenths     == (n \div 10) % 10
        hundredths == n % 10
    IN  ToString(n \div 100) \o
          (IF hundredths # 0 THEN "." \o ToString(tenths) \o ToString(hundredths)
           ELSE IF tenths # 0 THEN "." \o ToString(tenths)
           ELSE "")

\* the unit names of the claim, by unit index
UnitName(i) == CASE i = 0 -> "Bytes" [] i = 1 -> "KB" [] i = 2 -> "MB" [] i = 3 -> "GB"

\* C16: formatSize returns "0 Bytes" for 0; for every byte count b with
\* 1 <= b < 1024^4 it prints b / 1024^i rounded to at most 2 decimals
\* without trailing zeros, followed by the unit of the index i in 0..3 with
\* 1024^i <= b < 1024^(i+1); formatSize(1536) = "1.5 KB" and
\* formatSize(1048576) = "1 MB".
C16_FormatSize ==
    (call.fn = "formatFileSize" /\ call.done) =>
        LET b == call.arg IN
        /\ b.m = 0 => call.ret = "0 Bytes"
        /\ (b.m >= 1 /\ Below(b, 4)) =>
              \E i \in 0..3 :
                  /\ ~Below(b, i)
                  /\ Below(b, i + 1)
                  /\ LET d == IF i = b.e THEN 1 ELSE PowersOf1024[i - b.e]
                         low == (100 * b.m) \div d
                     IN  \E n \in {low, low + 1} :
                            /\ Nearest(n, b, i)
                            /\ call.ret = Decimal(n) \o " " \o UnitName(i)
        /\ b = [m |-> 1536, e |-> 0] => call.ret = "1.5 KB"
        /\ b \in {[m |-> 1048576, e |-> 0], [m |-> 1024, e |-> 1], [m |-> 1, e |-> 2]}
              => call.ret = "1 MB"

\* formatFileSize has returned for 1024^2 - 1 bytes, which are 1023.999 KB
\* and print as "1024 KB"
C16_Witness ==
    /\ call.fn = "formatFileSize"
    /\ call.done
    /\ call.arg = [m |-> 1048575, e |-> 0]
    /\ call.ret = "1024 KB"

\* ------------------------------------------------------------------------
\* C17
\* ------------------------------------------------------------------------

\* the one ExtractionResult of each file that the library opens, field by
\* field
ExtractionResult(f) ==
    CASE f = "plain.pdf" ->
            [isNull |-> FALSE, fileName |-> "plain.pdf", fileSize |-> "1.5 KB",
             fileType |-> "application/pdf", isPDF |-> TRUE, pdfVersion |-> "1.7",
             infoDict |->
                [LastModified |-> "1/16/2023, 9:00:00 AM (last time the file was saved or moved on your computer)",
                 Title |-> "Annual report",
                 CreationDate |-> "1/15/2023, 3:30:00 PM (when the PDF was first created)",
                 PageCount |-> "3 pages",
                 SecurityStatus |-> "Not Encrypted (this PDF has no security restrictions)",
                 Accessibility |-> "Not Tagged (limited accessibility support)"]]
      [] f = "locked.pdf" ->
            [isNull |-> FALSE, fileName |-> "locked.pdf", fileSize |-> "1 MB",
             fileType |-> "application/pdf", isPDF |-> TRUE, pdfVersion |-> "1.6",
             infoDict |->
                [LastModified |-> "3/1/2024, 8:15:30 AM (last time the file was saved or moved on your computer)",
                 Title |-> Null,
                 CreationDate |-> "2/29/2024, 12:00:00 PM (when the PDF was first created)",
                 PageCount |-> "2 pages",
                 SecurityStatus |-> "Encrypted (this PDF has security restrictions)",
                 Accessibility |-> "Tagged PDF (accessible for screen readers)"]]
      [] f = "hidden.pdf" ->
            [isNull |-> FALSE, fileName |-> "hidden.pdf", fileSize |-> "1.13 MB",
             fileType |-> "application/pdf", isPDF |-> TRUE, pdfVersion |-> "1.5",
             infoDict |->
                [LastModified |-> "6/30/2022, 11:59:59 PM (last time the file was saved or moved on your computer)",
                 Title |-> "Draft",
                 CreationDate |-> "2021-03-04 (when the PDF was first created)",
                 PageCount |-> "1 pages",
                 SecurityStatus |-> "Not Encrypted (this PDF has no security restrictions)",
                 Accessibility |-> "Not Tagged (limited accessibility support)"]]
      [] OTHER -> NoMetadata

C18_OnlyLatestAttemptApplies ==
    [][\A i \in 1..MaxTasks :
          (Ends(i) /\ i < Len(tasks) /\ ~Ends(Len(tasks))) =>
              UNCHANGED <<metadata, currentFile, showPasswordDialog,
                          passwordError, error, attempts>>]_vars

\* ------------------------------------------------------------------------
\* C19
\* ------------------------------------------------------------------------

\* C19: in every reachable state in which the prompt is hidden (no pending
\* file), the prompt error is absent and the attempt counter is 0.
C19_RetryStateResetWhenHidden ==
    (~showPasswordDialog \/ currentFile = Null) =>
        /\ passwordError = Null
        /\ attempts = 0

\* ------------------------------------------------------------------------
\* C20
\* ------------------------------------------------------------------------

\* C20: the prompt never persists a password: the field is empty after
\* every completed submission, and in every reachable state in which the
\* prompt is hidden no typed password is retained in the prompt's state.
C20_PasswordNeverPersists ==
    /\ [][\A i \in 1..MaxTasks :
            (Ends(i) /\ tasks[i].password # Null) => password' = ""]_vars
    /\ [](~showPasswordDialog => password = "")

====
